---- MODULE Spec2Model ----
(***************************************************************************)
(* A model of the question processor of enhanced_question_processor.py:    *)
(* the glyph substitution (convert_to_arabic_latex), the renderers          *)
(* (create_math_field, process_text_for_html), the part builders, the      *)
(* question assembler (process_single_question) and the batch driver       *)
(* (process_google_doc).                                                   *)
(*                                                                         *)
(* Python strings are TLA+ strings: sequences of characters, read with Len,*)
(* SubSeq and \o.  A Python dict is a function whose DOMAIN is its key set.*)
(* None is the empty tuple << >> and a present value v is <<v>>.           *)
(***************************************************************************)
EXTENDS Integers, Sequences, FiniteSets, TLC

(***************************************************************************)
(* Python's str methods, as the code uses them.                            *)
(***************************************************************************)
Char(s, i) == SubSeq(s, i, i)

Take(s, n) == SubSeq(s, 1, n)

Drop(s, n) == SubSeq(s, n + 1, Len(s))

Whitespace == {" ", "\n", "\t", "\r", "\f"}

UpperLetters == "ABCDEFGHIJKLMNOPQRSTUVWXYZ"

LowerLetters == "abcdefghijklmnopqrstuvwxyz"

Digits == "0123456789"

CharsOf(s) == {Char(s, i) : i \in 1..Len(s)}

UpperSet == CharsOf(UpperLetters)

LowerSet == CharsOf(LowerLetters)

DigitSet == CharsOf(Digits)

IsUpper(c) == c \in UpperSet

IsLower(c) == c \in LowerSet

IsAlpha(c) == IsUpper(c) \/ IsLower(c)

IsDigit(c) == c \in DigitSet

startswith(s, p) == Len(p) <= Len(s) /\ Take(s, Len(p)) = p

endswith(s, p) == Len(p) <= Len(s) /\ Drop(s, Len(s) - Len(p)) = p

\* s.find(sub, i - 1) + 1: the first index >= i where sub occurs, 0 when none
find(s, sub, i) ==
    LET hits == {h \in i..(Len(s) - Len(sub) + 1) :
                    SubSeq(s, h, h + Len(sub) - 1) = sub}
    IN  IF hits = {} THEN 0
        ELSE CHOOSE h \in hits : \A g \in hits : h <= g

\* sub in s
contains(s, sub) == find(s, sub, 1) # 0

\* s.replace(old, new, 1)
replace_first(s, old, new) ==
    LET i == find(s, old, 1)
    IN  IF i = 0 THEN s
        ELSE Take(s, i - 1) \o new \o Drop(s, i - 1 + Len(old))

\* s.replace(old, new): every occurrence, left to right, without overlap
RECURSIVE replace(_, _, _)
replace(s, old, new) ==
    LET i == find(s, old, 1)
    IN  IF i = 0 THEN s
        ELSE Take(s, i - 1) \o new \o replace(Drop(s, i - 1 + Len(old)), old, new)

\* s.split(sep)
RECURSIVE split(_, _)
split(s, sep) ==
    LET i == find(s, sep, 1)
    IN  IF i = 0 THEN <<s>>
        ELSE <<Take(s, i - 1)>> \o split(Drop(s, i - 1 + Len(sep)), sep)

\* s.split(sep, 1)
split_once(s, sep) ==
    LET i == find(s, sep, 1)
    IN  IF i = 0 THEN <<s>>
        ELSE <<Take(s, i - 1), Drop(s, i - 1 + Len(sep))>>

\* sep.join(parts)
RECURSIVE join(_, _)
join(sep, parts) ==
    IF parts = << >> THEN ""
    ELSE IF Len(parts) = 1 THEN parts[1]
    ELSE parts[1] \o sep \o join(sep, Tail(parts))

RECURSIVE lstrip(_)
lstrip(s) ==
    IF s # "" /\ Char(s, 1) \in Whitespace THEN lstrip(Drop(s, 1)) ELSE s

RECURSIVE rstrip(_)
rstrip(s) ==
    IF s # "" /\ Char(s, Len(s)) \in Whitespace
    THEN rstrip(Take(s, Len(s) - 1)) ELSE s

strip(s) == lstrip(rstrip(s))

\* str(i) of a natural number
RECURSIVE IntToStr(_)
IntToStr(n) ==
    IF n < 10 THEN Char(Digits, n + 1)
    ELSE IntToStr(n \div 10) \o Char(Digits, (n % 10) + 1)

\* [x for x in xs if x]
NonEmpty(xs) ==
    LET F[k \in 0..Len(xs)] ==
            IF k = 0 THEN << >>
            ELSE IF xs[k] # "" THEN Append(F[k - 1], xs[k]) ELSE F[k - 1]
    IN  F[Len(xs)]

\* [x.strip() for x in xs]
StripAll(xs) == [k \in 1..Len(xs) |-> strip(xs[k])]

(***************************************************************************)
(* QuestionProcessor.ARABIC_LATEX_MAP, in the order the dict literal       *)
(* lists its keys (sorted() is stable, so the order decides ties).         *)
(***************************************************************************)
ARABIC_LATEX_MAP ==
    << <<"F(x)", "\\dotlessqaft (\\seen)">>, <<"Q'", "\\dotlessnoont \\prime">>,
       <<"N", "\\tah">>, <<"Z", "\\sadt">>, <<"Q", "\\dotlessnoont">>,
       <<"X", "\\seent">>, <<"Y", "\\sadt">>, <<"A", "\\alt{\\alef}">>,
       <<"B", "\\beh">>, <<"C", "\\jeemi">>, <<"D", "\\dal">>,
       <<"E", "\\hehi">>, <<"F", "\\waw">>, <<"M", "\\meem">>,
       <<"K", "\\kaf">>, <<"L", "\\lam">>, <<"O", "\\waw">>,
       <<"R", "\\haht">>,
       <<"x", "\\seen">>, <<"y", "\\sad">>, <<"z", "\\ain">>,
       <<"n", "\\noon">>, <<"s", "\\feh">>, <<"r", "\\aint">> >>

\* ARABIC_LATEX_MAP.keys()
MapKeys == [k \in 1..Len(ARABIC_LATEX_MAP) |-> ARABIC_LATEX_MAP[k][1]]

\* ARABIC_LATEX_MAP[key]
MapValue(key) ==
    LET k == CHOOSE j \in 1..Len(ARABIC_LATEX_MAP) : ARABIC_LATEX_MAP[j][1] = key
    IN  ARABIC_LATEX_MAP[k][2]

\* sorted(keys, key=len, reverse=True): a stable sort, longest first
OfLen(keys, n) ==
    LET F[k \in 0..Len(keys)] ==
            IF k = 0 THEN << >>
            ELSE IF Len(keys[k]) = n THEN Append(F[k - 1], keys[k]) ELSE F[k - 1]
    IN  F[Len(keys)]

RECURSIVE SortedByLen(_, _)
SortedByLen(keys, n) ==
    IF n = 0 THEN << >>
    ELSE OfLen(keys, n) \o SortedByLen(keys, n - 1)

\* max(len(k) for k in keys)
LongestLen(keys) ==
    LET F[k \in 0..Len(keys)] ==
            IF k = 0 THEN 0
            ELSE LET longest == F[k - 1]
                 IN  IF Len(keys[k]) > longest THEN Len(keys[k]) ELSE longest
    IN  F[Len(keys)]

sorted_keys == SortedByLen(MapKeys, LongestLen(MapKeys))

InSeq(x, xs) == \E k \in 1..Len(xs) : xs[k] = x

(***************************************************************************)
(* convert_to_arabic_latex                                                 *)
(***************************************************************************)
\* the index of the last letter of the run of letters that starts at i
RECURSIVE LettersEnd(_, _)
LettersEnd(s, i) ==
    IF i < Len(s) /\ IsAlpha(Char(s, i + 1)) THEN LettersEnd(s, i + 1) ELSE i

\* re.findall(r'(\\[a-zA-Z]+(?:\{[^}]*\})?)', s), scanning from index i
RECURSIVE latex_findall(_, _)
latex_findall(s, i) ==
    LET b == find(s, "\\", i)
    IN  IF b = 0 THEN << >>
        ELSE IF b < Len(s) /\ IsAlpha(Char(s, b + 1))
        THEN LET e == LettersEnd(s, b + 1)
                 close == IF e < Len(s) /\ Char(s, e + 1) = "{"
                          THEN find(s, "}", e + 2) ELSE 0
                 last == IF close # 0 THEN close ELSE e
             IN  <<SubSeq(s, b, last)>> \o latex_findall(s, last + 1)
        ELSE latex_findall(s, b + 1)

\* f'__LATEX_CMD_{i}__', i counted from 0 as enumerate() does
placeholder(i) == "__LATEX_CMD_" \o IntToStr(i) \o "__"

\* for i, command in enumerate(latex_commands):
\*     protected_equation = protected_equation.replace(command, placeholder, 1)
RECURSIVE protect_commands(_, _, _)
protect_commands(equation, latex_commands, i) ==
    IF i > Len(latex_commands) THEN equation
    ELSE protect_commands(
             replace_first(equation, latex_commands[i], placeholder(i - 1)),
             latex_commands, i + 1)

\* for key in sorted_keys: if key in part: part = part.replace(key, MAP[key])
RECURSIVE substitute_keys(_, _)
substitute_keys(part, k) ==
    IF k > Len(sorted_keys) THEN part
    ELSE IF contains(part, sorted_keys[k])
    THEN substitute_keys(
             replace(part, sorted_keys[k], MapValue(sorted_keys[k])), k + 1)
    ELSE substitute_keys(part, k + 1)

\* one space-delimited fragment: an exact key, or substring substitution
convert_part(part) ==
    IF InSeq(part, sorted_keys) THEN MapValue(part)
    ELSE substitute_keys(part, 1)

\* for i, command in enumerate(latex_commands):
\*     result = result.replace(placeholder, command, 1)
RECURSIVE restore_commands(_, _, _)
restore_commands(result, latex_commands, i) ==
    IF i > Len(latex_commands) THEN result
    ELSE restore_commands(
             replace_first(result, placeholder(i - 1), latex_commands[i]),
             latex_commands, i + 1)

\* processed_parts: every space-delimited fragment, converted
convert_parts(parts) == [k \in 1..Len(parts) |-> convert_part(parts[k])]

\* convert_to_arabic_latex after re.findall: protect, split on spaces,
\* convert, join, restore
convert_protected(equation, latex_commands) ==
    restore_commands(
        join(" ", convert_parts(
                      split(protect_commands(equation, latex_commands, 1), " "))),
        latex_commands, 1)

convert_to_arabic_latex(equation) ==
    IF equation = "" THEN ""
    ELSE convert_protected(equation, latex_findall(equation, 1))

(***************************************************************************)
(* Language and the two renderers                                          *)
(***************************************************************************)
ARABIC == "ar"

ENGLISH == "en"

Languages == {ARABIC, ENGLISH}

\* the five replacements of create_math_field, in the code's order
escape_attribute(value) ==
    replace(replace(replace(replace(replace(value,
        "&", "&amp;"), "<", "&lt;"), ">", "&gt;"), "\"", "&quot;"), "'", "&#39;")

\* the three replacements of process_text_for_html's plain text
escape_text(part) ==
    replace(replace(replace(part, "&", "&amp;"), "<", "&lt;"), ">", "&gt;")

create_math_field(equation, language, force_en) ==
    IF equation = "" THEN ""
    ELSE LET is_arabic == language = ARABIC /\ ~force_en
             locale_attrs == IF is_arabic THEN " locale=\"ar\" lang=\"ar\""
                             ELSE " locale=\"en\""
         IN  "<span class=\"LexicalTheme__math--inline\" data-node-type=\"math\" "
             \o "data-node-variation=\"inline\">"
             \o "<math-field default-mode=\"inline-math\" read-only=\"true\" "
             \o "value=\""
             \o escape_attribute(IF is_arabic
                                 THEN convert_to_arabic_latex(equation)
                                 ELSE equation)
             \o "\"" \o locale_attrs
             \o "></math-field></span>"

blank_html ==
    "<span data-node-type=\"blank-line\" data-node-variation=\"space\">&nbsp;</span>"

\* A TLA+ string cannot hold the backtick: the model writes it as a tilde,
\* a character that the texts of the model do not use otherwise.
Backtick == "~"

Backtick2 == Backtick \o Backtick

\* the end index of the match of math_pattern that starts at i, 0 if none:
\* two backticks, a run without backticks, two backticks; or the same with one
math_match_end(s, i) ==
    IF Char(s, i) # Backtick THEN 0
    ELSE LET j == IF startswith(Drop(s, i - 1), Backtick2)
                  THEN find(s, Backtick, i + 2) ELSE 0
             k == find(s, Backtick, i + 1)
         IN  IF j # 0 /\ j < Len(s) /\ Char(s, j + 1) = Backtick THEN j + 1
             ELSE k

\* re.split(math_pattern, s): text, match, text, ..., match, text
RECURSIVE math_split(_, _, _)
math_split(s, from, i) ==
    LET b == find(s, Backtick, i)
    IN  IF b = 0 THEN <<SubSeq(s, from, Len(s))>>
        ELSE LET e == math_match_end(s, b)
             IN  IF e = 0 THEN math_split(s, from, b + 1)
                 ELSE <<SubSeq(s, from, b - 1), SubSeq(s, b, e)>>
                      \o math_split(s, e + 1, e + 1)

\* what the loop body of process_text_for_html adds for one part
render_part(part, language) ==
    IF part = "" THEN ""
    ELSE IF startswith(part, Backtick2) /\ endswith(part, Backtick2)
    THEN create_math_field(strip(SubSeq(part, 3, Len(part) - 2)), language, TRUE)
    ELSE IF startswith(part, Backtick) /\ endswith(part, Backtick)
    THEN create_math_field(strip(SubSeq(part, 2, Len(part) - 1)), language, FALSE)
    ELSE "<span style=\"white-space: pre-wrap;\">" \o escape_text(part) \o "</span>"

RECURSIVE render_parts(_, _)
render_parts(parts, language) ==
    IF parts = << >> THEN ""
    ELSE render_part(parts[1], language) \o render_parts(Tail(parts), language)

process_text_for_html(text, language) ==
    IF text = "" THEN ""
    ELSE LET direction == IF language = ARABIC THEN " dir=\"rtl\"" ELSE ""
         IN  "<p class=\"LexicalTheme__paragraph\"" \o direction \o ">"
             \o render_parts(
                    math_split(replace(text, "_____", blank_html), 1, 1),
                    language)
             \o "</p>"

(***************************************************************************)
(* Python values: None, dicts, raised exceptions                           *)
(***************************************************************************)
None == << >>

Some(v) == <<v>>

EmptyDict == << >>

\* d[k] = v
Put(d, k, v) == [x \in DOMAIN d \cup {k} |-> IF x = k THEN v ELSE d[x]]

\* d.update(e)
Update(d, e) ==
    [x \in DOMAIN d \cup DOMAIN e |-> IF x \in DOMAIN e THEN e[x] ELSE d[x]]

\* d.get(k) or e.get(k): the first that is present and not empty, else ""
GetOr(d, e, k) ==
    IF k \in DOMAIN d /\ d[k] # "" THEN d[k]
    ELSE IF k \in DOMAIN e THEN e[k]
    ELSE ""

\* a call that returned v, and a call that raised ValueError(message)
Return(v) == [ok |-> TRUE, value |-> v]

Raise(message) == [ok |-> FALSE, error |-> message]

\* [line.strip() for line in text.strip().split('\n') if line.strip()]
stripped_lines(text) == NonEmpty(StripAll(split(strip(text), "\n")))

(***************************************************************************)
(* QuestionType and the part builders                                      *)
(***************************************************************************)
QuestionType ==
    {"mcq", "mrq", "string", "oq", "gapText", "matching", "input_box", "frq",
     "frq_ai"}

\* a variant of mcq_choice that marks no line as key
mcq_choice_no_key(choice_line, j, language) ==
    [type |-> "distractor",
     html_content |-> process_text_for_html(strip(choice_line), language),
     values |-> << >>,
     unit |-> None,
     index |-> j,
     fixed_order |-> j + 1,
     last_order |-> FALSE]

\* one choice of process_mcq_mrq_part, for line j (from 0) of choices_lines
mcq_choice(choice_line, j, language) ==
    LET is_key == startswith(choice_line, "*")
        text == IF is_key THEN strip(Drop(choice_line, 1)) ELSE strip(choice_line)
    IN  [type |-> IF is_key THEN "key" ELSE "distractor",
         html_content |-> process_text_for_html(text, language),
         values |-> << >>,
         unit |-> None,
         index |-> j,
         fixed_order |-> j + 1,
         last_order |-> FALSE]

process_mcq_mrq_part(content, language) ==
    IF "choices" \notin DOMAIN content
    THEN Raise("MCQ/MRQ questions must have choices")
    ELSE LET choices_lines == stripped_lines(content["choices"])
         IN  Return([choices |->
                 [k \in 1..Len(choices_lines) |->
                     mcq_choice(choices_lines[k], k - 1, language)]])

\* {"ai": {"ai_template_id": ai_id}} when an id is given, else nothing
ai_attachment(ai_id) ==
    IF ai_id # "" THEN [ai |-> [ai_template_id |-> ai_id]] ELSE EmptyDict

process_string_part(content, metadata, part_metadata, language) ==
    IF "answer" \notin DOMAIN content
    THEN Raise("String questions must have an answer")
    ELSE LET ai_id == GetOr(part_metadata, metadata, "ai_template_id")
         IN  Return(Update(
                 [choices |-> None,
                  answer |-> <<process_text_for_html(strip(content["answer"]),
                                                     language)>>],
                 ai_attachment(ai_id)))

\* oq_choice with fixed_order counted from zero, as index is
oq_choice_fixed_order_from_zero(line, j, language) ==
    [type |-> "distractor",
     html_content |-> process_text_for_html(line, language),
     correct_order |-> j + 1,
     values |-> << >>,
     unit |-> None,
     index |-> j,
     fixed_order |-> j,
     last_order |-> FALSE]

oq_choice(line, j, language) ==
    [type |-> "distractor",
     html_content |-> process_text_for_html(line, language),
     correct_order |-> j + 1,
     values |-> << >>,
     unit |-> None,
     index |-> j,
     fixed_order |-> j + 1,
     last_order |-> FALSE]

process_oq_part(content, language) ==
    IF "choices" \notin DOMAIN content
    THEN Raise("OQ questions must have choices")
    ELSE LET oq_lines == stripped_lines(content["choices"])
         IN  Return([direction |-> "vertical",
                     choices |-> [k \in 1..Len(oq_lines) |->
                                     oq_choice(oq_lines[k], k - 1, language)]])

stem_html_gap ==
    "<span data-node-type=\"blank-line\" data-node-variation=\"gap\">&nbsp;</span>"

process_gap_text_part(content, language) ==
    IF "gaps" \notin DOMAIN content \/ "stem" \notin DOMAIN content
    THEN Raise("Gap text questions must have gaps and stem")
    ELSE LET gap_lines == stripped_lines(content["gaps"])
             processed_stem == replace(strip(content["stem"]), "[BLANK]",
                                       stem_html_gap)
         IN  Return([choices |-> << >>,
                     gap_text_keys |-> [k \in 1..Len(gap_lines) |->
                         [value |-> gap_lines[k], correct_order |-> k]],
                     stem |-> process_text_for_html(processed_stem, language)])

\* the two choices process_matching_part appends for line j (from 0)
matching_group1(line, j, language) ==
    [type |-> "distractor",
     html_content |-> process_text_for_html(strip(split_once(line, "|")[1]),
                                            language),
     group |-> 1,
     correct_order |-> j + 1,
     values |-> << >>,
     unit |-> None,
     index |-> j,
     fixed_order |-> j + 1,
     last_order |-> FALSE]

\* a variant of matching_group2 that numbers the right items like the left ones
matching_group2_unshifted(line, j, n_lines, language) ==
    [type |-> "distractor",
     html_content |-> process_text_for_html(strip(split_once(line, "|")[2]),
                                            language),
     group |-> 2,
     correct_order |-> j + 1,
     values |-> << >>,
     unit |-> None,
     index |-> j,
     fixed_order |-> j + 1,
     last_order |-> FALSE]

matching_group2(line, j, n_lines, language) ==
    [type |-> "distractor",
     html_content |-> process_text_for_html(strip(split_once(line, "|")[2]),
                                            language),
     group |-> 2,
     correct_order |-> j + 1,
     values |-> << >>,
     unit |-> None,
     index |-> j + n_lines,
     fixed_order |-> j + 1 + n_lines,
     last_order |-> FALSE]

\* the choices list after the loop over pair_lines[1..k]: two appends per line
RECURSIVE matching_choices(_, _, _)
matching_choices(pair_lines, k, language) ==
    IF k = 0 THEN << >>
    ELSE matching_choices(pair_lines, k - 1, language)
         \o <<matching_group1(pair_lines[k], k - 1, language),
              matching_group2(pair_lines[k], k - 1, Len(pair_lines), language)>>

process_matching_part(content, language) ==
    IF "matching_pairs" \notin DOMAIN content
    THEN Raise("Matching questions must have matching_pairs")
    ELSE LET pair_lines == stripped_lines(content["matching_pairs"])
             bad == {k \in 1..Len(pair_lines) : ~contains(pair_lines[k], "|")}
         IN  IF bad # {}
             THEN Raise("Matching pair must contain '|' separator: "
                        \o pair_lines[CHOOSE k \in bad : \A m \in bad : k <= m])
             ELSE Return([choices |->
                     matching_choices(pair_lines, Len(pair_lines), language)])

process_input_box_part(content) ==
    IF "answer" \notin DOMAIN content
    THEN Raise("Input box questions must have an answer")
    ELSE LET answer_parts == split(strip(content["answer"]), "|")
         IN  Return([choices |-> << >>,
                     answer |-> [value |-> strip(answer_parts[1]),
                                 unit |-> IF Len(answer_parts) > 1
                                          THEN Some(strip(answer_parts[2]))
                                          ELSE None,
                                 constrains |-> [type |-> "integer"]]])

\* a variant of process_frq_part for which the id is optional in frq_ai too
process_frq_part_ai_optional(content, metadata, part_metadata, language, question_type) ==
    LET ai_id == GetOr(part_metadata, metadata, "ai_template_id")
    IN  IF "answer" \notin DOMAIN content
        THEN Raise("FRQ questions must have an answer")
        ELSE Return(Update(
                 [choices |-> << >>,
                  answer |-> process_text_for_html(strip(content["answer"]),
                                                   language)],
                 IF question_type = "frq_ai" /\ ai_id # ""
                 THEN [ai |-> [ai_template_id |-> ai_id]] ELSE EmptyDict))

process_frq_part(content, metadata, part_metadata, language, question_type) ==
    LET ai_id == GetOr(part_metadata, metadata, "ai_template_id")
    IN  IF "answer" \notin DOMAIN content
        THEN Raise("FRQ questions must have an answer")
        ELSE IF question_type = "frq_ai" /\ ai_id = ""
        THEN Raise("'ai_template_id' is required for frq_ai type")
        ELSE Return(Update(
                 [choices |-> << >>,
                  answer |-> process_text_for_html(strip(content["answer"]),
                                                   language)],
                 IF question_type = "frq_ai"
                 THEN [ai |-> [ai_template_id |-> ai_id]] ELSE EmptyDict))

(***************************************************************************)
(* process_question_part                                                   *)
(***************************************************************************)
AllIn(s, chars) == \A k \in 1..Len(s) : Char(s, k) \in chars

\* re.match(r'^\[([A-Z_]+)\]$', line): group 1 when it matches, else ""
tag_match(line) ==
    IF Len(line) >= 3 /\ Char(line, 1) = "[" /\ Char(line, Len(line)) = "]"
       /\ AllIn(SubSeq(line, 2, Len(line) - 1), UpperSet \cup {"_"})
    THEN SubSeq(line, 2, Len(line) - 1)
    ELSE ""

\* the length of the longest prefix of s made of characters of chars
RECURSIVE PrefixIn(_, _, _)
PrefixIn(s, chars, k) ==
    IF k < Len(s) /\ Char(s, k + 1) \in chars THEN PrefixIn(s, chars, k + 1)
    ELSE k

\* re.match(r'^([a-z_]+):\s*(.*)', line): <<group 1, group 2>>, else << >>
meta_match(line) ==
    LET n == PrefixIn(line, LowerSet \cup {"_"}, 0)
    IN  IF n >= 1 /\ n < Len(line) /\ Char(line, n + 1) = ":"
        THEN <<Take(line, n), lstrip(Drop(line, n + 1))>>
        ELSE << >>

\* s.lower()
lower(s) ==
    LET low(c) == IF IsUpper(c) THEN Char(LowerLetters, find(UpperLetters, c, 1))
                  ELSE c
        F[k \in 0..Len(s)] == IF k = 0 THEN "" ELSE F[k - 1] \o low(Char(s, k))
    IN  F[Len(s)]

\* the loop over the lines of the part block: the locals after each line
parse_step(st, line) ==
    LET tag == tag_match(line)
        meta == meta_match(line)
    IN  IF tag # ""
        THEN [st EXCEPT !.current_tag = lower(tag),
                        !.content = Put(st.content, lower(tag), "")]
        ELSE IF meta # << >> /\ st.current_tag = ""
        THEN [st EXCEPT !.part_metadata = Put(st.part_metadata, meta[1], meta[2])]
        ELSE IF st.current_tag # "" /\ strip(line) # ""
        THEN [st EXCEPT !.content =
                 Put(st.content, st.current_tag,
                     st.content[st.current_tag] \o line \o "\n")]
        ELSE st

parse_part_block(part_block) ==
    LET lines == split(strip(part_block), "\n")
        F[k \in 0..Len(lines)] ==
            IF k = 0
            THEN [part_metadata |-> EmptyDict, content |-> EmptyDict,
                  current_tag |-> ""]
            ELSE parse_step(F[k - 1], lines[k])
        last == F[Len(lines)]
    IN  [part_metadata |-> last.part_metadata,
         content |-> [key \in DOMAIN last.content |-> strip(last.content[key])]]

\* the dispatch on question_type: what the chosen builder returns or raises
build_by_type(question_type, content, metadata, part_metadata, language) ==
    CASE question_type \in {"mcq", "mrq"} ->
             process_mcq_mrq_part(content, language)
      [] question_type = "string" ->
             process_string_part(content, metadata, part_metadata, language)
      [] question_type = "oq" -> process_oq_part(content, language)
      [] question_type = "gapText" -> process_gap_text_part(content, language)
      [] question_type = "matching" -> process_matching_part(content, language)
      [] question_type = "input_box" -> process_input_box_part(content)
      [] question_type \in {"frq", "frq_ai"} ->
             process_frq_part(content, metadata, part_metadata, language,
                              question_type)

\* the base part structure, with the stem when the block has one
base_part(part_counter, question_type, content, language) ==
    Update([n |-> part_counter, type |-> question_type, subtype |-> None,
            standalone |-> FALSE],
           IF "stem" \in DOMAIN content
           THEN [stem |-> process_text_for_html(content["stem"], language)]
           ELSE EmptyDict)

\* part.update(...) with what the builder returned; its ValueError is re-raised
update_part(part, built) ==
    IF built.ok THEN Return(Update(part, built.value)) ELSE built

\* a variant of process_parsed_part in which the question-level type wins
process_parsed_part_question_first(parsed, part_counter, metadata, language) ==
    LET part_type_str == GetOr(metadata, parsed.part_metadata, "type")
    IN  IF part_type_str = "" THEN Raise("Question type not specified")
        ELSE IF part_type_str \notin QuestionType
        THEN Raise("Unsupported question type: " \o part_type_str)
        ELSE update_part(
                 base_part(part_counter, part_type_str, parsed.content, language),
                 build_by_type(part_type_str, parsed.content, metadata,
                               parsed.part_metadata, language))

\* process_question_part after the loop over the lines of the block
process_parsed_part(parsed, part_counter, metadata, language) ==
    LET part_type_str == GetOr(parsed.part_metadata, metadata, "type")
    IN  IF part_type_str = "" THEN Raise("Question type not specified")
        ELSE IF part_type_str \notin QuestionType
        THEN Raise("Unsupported question type: " \o part_type_str)
        ELSE update_part(
                 base_part(part_counter, part_type_str, parsed.content, language),
                 build_by_type(part_type_str, parsed.content, metadata,
                               parsed.part_metadata, language))

process_question_part(part_block, part_counter, metadata, language) ==
    process_parsed_part(parse_part_block(part_block), part_counter, metadata,
                        language)

(***************************************************************************)
(* validate_metadata and create_base_json_structure                        *)
(***************************************************************************)
\* whether int(s) succeeds: an optional sign, then digits, where single
\* underscores may stand between digits (s has no surrounding whitespace)
RECURSIVE IsDigitRun(_, _)
IsDigitRun(s, k) ==
    IF k > Len(s) THEN TRUE
    ELSE IF IsDigit(Char(s, k)) THEN IsDigitRun(s, k + 1)
    ELSE Char(s, k) = "_" /\ k > 1 /\ k < Len(s)
         /\ IsDigit(Char(s, k - 1)) /\ IsDigit(Char(s, k + 1))
         /\ IsDigitRun(s, k + 1)

Unsigned(s) ==
    IF s # "" /\ Char(s, 1) \in {"+", "-"} THEN Drop(s, 1) ELSE s

IsIntLiteral(s) == Unsigned(s) # "" /\ IsDigitRun(Unsigned(s), 1)

\* int(s), for an s that int() accepts
IntValue(s) ==
    LET u == Unsigned(s)
        F[k \in 0..Len(u)] ==
            IF k = 0 THEN 0
            ELSE IF Char(u, k) = "_" THEN F[k - 1]
            ELSE 10 * F[k - 1] + (find(Digits, Char(u, k), 1) - 1)
    IN  IF startswith(s, "-") THEN 0 - F[Len(u)] ELSE F[Len(u)]

required_fields == <<"id", "language">>

\* the errors list of validate_metadata
validate_metadata(metadata) ==
    LET missing(field) ==
            IF field \notin DOMAIN metadata \/ metadata[field] = ""
            THEN <<"Missing required field: " \o field>> ELSE << >>
        bad_language ==
            IF "language" \in DOMAIN metadata
               /\ metadata["language"] \notin Languages
            THEN <<"Invalid language: " \o metadata["language"]>> ELSE << >>
        bad_id ==
            IF "id" \in DOMAIN metadata /\ ~IsIntLiteral(metadata["id"])
            THEN <<"ID must be numeric: " \o metadata["id"]>> ELSE << >>
    IN  missing(required_fields[1]) \o missing(required_fields[2])
        \o bad_language \o bad_id

\* metadata.get(key, default)
GetDefault(d, k, default) == IF k \in DOMAIN d THEN d[k] ELSE default

dialect_map(language) ==
    IF language = ARABIC THEN <<"modern_standard">> ELSE <<"american", "british">>

\* the record of create_base_json_structure; it raises when language is
\* Arabic and mapped_id is given but is no integer.  source_id.value,
\* 182136230818, is written as its digits: it exceeds TLC's integers.
create_base_json_structure(metadata, now) ==
    LET language == metadata["language"]
        swap == language = ARABIC /\ "mapped_id" \in DOMAIN metadata
    IN  IF swap /\ ~IsIntLiteral(metadata["mapped_id"])
        THEN Raise("invalid literal for int() with base 10: '"
                   \o metadata["mapped_id"] \o "'")
        ELSE Return(
            [parts |-> << >>,
             statement |-> None,
             instance_number |-> 1,
             metadata |->
                [id |-> IF swap THEN IntValue(metadata["mapped_id"])
                        ELSE IntValue(metadata["id"]),
                 mapped_id |-> IntValue(metadata["id"]),
                 category |-> GetDefault(metadata, "category", "exam"),
                 language |-> language,
                 country |-> GetDefault(metadata, "country", "eg"),
                 dialect |-> dialect_map(language),
                 source_id |-> [value |-> "182136230818", page_number |-> None],
                 description |-> GetDefault(metadata, "description", ""),
                 example_id |-> None,
                 has_example |-> FALSE,
                 instances_count |-> 1,
                 publication_date |-> now,
                 parts_count |-> 0]])

(***************************************************************************)
(* process_single_question, in the steps the batch actions take            *)
(***************************************************************************)
\* [line.rstrip() for line in block.strip().split('\n')]
block_lines(block) ==
    LET raw == split(strip(block), "\n")
    IN  [k \in 1..Len(raw) |-> rstrip(raw[k])]

\* the metadata loop: the dict, and metadata_end_index (counted from 0)
parse_metadata(lines) ==
    LET F[k \in 0..Len(lines)] ==
            IF k = 0 THEN [metadata |-> EmptyDict, stop |-> FALSE, end |-> 0]
            ELSE LET st == F[k - 1]
                     kv == split_once(lines[k], ":")
                 IN  IF st.stop THEN st
                     ELSE IF startswith(lines[k], "[")
                     THEN [st EXCEPT !.stop = TRUE, !.end = k - 1]
                     ELSE IF contains(lines[k], ":")
                     THEN [st EXCEPT
                              !.metadata = Put(@, strip(kv[1]), strip(kv[2]))]
                     ELSE st
        last == F[Len(lines)]
    IN  [metadata |-> last.metadata, metadata_end_index |-> last.end]

\* '\n'.join(lines[metadata_end_index:])
content_of(lines, metadata_end_index) ==
    join("\n", SubSeq(lines, metadata_end_index + 1, Len(lines)))

has_statement_and_parts(content_str) ==
    contains(content_str, "[STATEMENT]") /\ contains(content_str, "[PART]")

\* a variant of statement_text_of that does not strip the text
statement_text_unstripped(content_str) ==
    IF has_statement_and_parts(content_str)
    THEN replace(split_once(content_str, "[PART]")[1], "[STATEMENT]", "")
    ELSE ""

\* statement_text of the multi-part branch, "" in the other branch
statement_text_of(content_str) ==
    IF has_statement_and_parts(content_str)
    THEN strip(replace(split_once(content_str, "[PART]")[1], "[STATEMENT]", ""))
    ELSE ""

\* a variant of split_part_blocks that keeps the blank pieces
split_part_blocks_keep_blank(content_str) ==
    IF has_statement_and_parts(content_str)
    THEN StripAll(
             split("[PART]" \o split_once(content_str, "[PART]")[2], "[PART]"))
    ELSE IF strip(content_str) # "" THEN <<content_str>> ELSE << >>

\* part_blocks: the stripped non-empty pieces between [PART] tags, or the
\* whole body as one block
split_part_blocks(content_str) ==
    IF has_statement_and_parts(content_str)
    THEN NonEmpty(StripAll(
             split("[PART]" \o split_once(content_str, "[PART]")[2], "[PART]")))
    ELSE IF strip(content_str) # "" THEN <<content_str>> ELSE << >>

\* file_name = f"{metadata['id']}.json"
file_name_of(metadata) == metadata["id"] \o ".json"

(***************************************************************************)
(* The state of a QuestionProcessor and of a process_google_doc run        *)
(***************************************************************************)
VARIABLES
    pc,               \* where process_google_doc stands
    doc_content,      \* the argument of the current process_google_doc call
    question_blocks,  \* its local question_blocks
    i,                \* its loop counter (from 1, as enumerate(.., 1))
    stats,            \* self.stats
    files,            \* the documents in self.output_dir: file name -> JSON
    error_log,        \* the messages given to logger.error during this run
    result,           \* what process_single_question returned: a name or None
    metadata,         \* locals of process_single_question
    final_json,
    part_blocks,
    part_counter,
    call,             \* the arguments of a function called on its own
    ret               \* and what it returned, None before it has

batch_vars == <<pc, doc_content, question_blocks, i, stats, files, error_log, result>>

question_vars == <<metadata, final_json, part_blocks, part_counter>>

vars == <<batch_vars, question_vars, call, ret>>

\* ProcessingStats(), after __post_init__
ProcessingStats ==
    [total_questions |-> 0, successful |-> 0, failed |-> 0,
     generated_files |-> << >>]

\* a variant of reset_stats that keeps the counters of the run before
keep_stats(old) == old

\* self.stats = ProcessingStats() at the start of process_google_doc
reset_stats(old) == ProcessingStats

\* a variant of on_question_error where the exception leaves the batch loop
on_question_error_abort == "raised"

\* the except clause of process_single_question returns None to the batch
\* loop, which goes on to count the result
on_question_error == "record"

\* with open(file_path, 'w') ...: json.dump(final_json, f, ...)
write_document(dir, file_name, json) == Put(dir, file_name, json)

\* a variant of count_result that puts the newest file name first
count_result_newest_first(st, res) ==
    IF res # None
    THEN [st EXCEPT !.successful = @ + 1,
                    !.generated_files = <<res[1]>> \o @]
    ELSE [st EXCEPT !.failed = @ + 1]

\* a variant of count_result that counts every question as successful
count_all_successful(st, res) ==
    [st EXCEPT !.successful = @ + 1,
               !.generated_files = Append(@, IF res # None THEN res[1] ELSE "")]

\* the if/else on result in the loop of process_google_doc
count_result(st, res) ==
    IF res # None
    THEN [st EXCEPT !.successful = @ + 1,
                    !.generated_files = Append(@, res[1])]
    ELSE [st EXCEPT !.failed = @ + 1]

\* what get_current_timestamp() may return
Timestamps == {"2025-01-01 10:00:00"}

NoQuestion ==
    /\ metadata = EmptyDict
    /\ final_json = None
    /\ part_blocks = << >>
    /\ part_counter = 0

\* process_single_question returns: its locals are gone
ClearQuestion ==
    /\ metadata' = EmptyDict
    /\ final_json' = None
    /\ part_blocks' = << >>
    /\ part_counter' = 0

\* QuestionProcessor.__init__, on an empty output directory
Fresh ==
    /\ pc = "idle"
    /\ doc_content = ""
    /\ question_blocks = << >>
    /\ i = 0
    /\ stats = ProcessingStats
    /\ files = EmptyDict
    /\ error_log = << >>
    /\ result = None
    /\ NoQuestion

\* process_google_doc up to its loop: reset, split, count
StartBatch(doc) ==
    /\ pc \in {"idle", "returned", "raised"}
    /\ \E blocks \in {NonEmpty(StripAll(split(strip(doc), "---\n")))} :
           /\ doc_content' = doc
           /\ question_blocks' = blocks
           /\ stats' = [reset_stats(stats) EXCEPT !.total_questions = Len(blocks)]
           /\ i' = 1
           /\ pc' = IF blocks = << >> THEN "summary" ELSE "question"
    /\ error_log' = << >>
    /\ result' = None
    /\ UNCHANGED <<files, question_vars>>

\* process_single_question caught an exception: logger.error, return None
QuestionFails(logged, message) ==
    /\ error_log' = error_log \o logged
           \o <<"Error processing Question #" \o IntToStr(i) \o ": " \o message>>
    /\ result' = None
    /\ pc' = on_question_error
    /\ ClearQuestion
    /\ UNCHANGED <<doc_content, question_blocks, i, stats, files>>

\* process_single_question up to its loop over the parts
BeginQuestion ==
    /\ pc = "question"
    /\ \E lines \in {block_lines(question_blocks[i])} :
       \E parsed \in {parse_metadata(lines)} :
       \E errors \in {validate_metadata(parsed.metadata)} :
       \E content_str \in {content_of(lines, parsed.metadata_end_index)} :
       \E statement_text \in {statement_text_of(content_str)} :
           IF errors # << >>
           THEN QuestionFails(<< >>, "Metadata validation failed: "
                                     \o join(", ", errors))
           ELSE \E now \in Timestamps :
                \E base \in {create_base_json_structure(parsed.metadata, now)} :
                    IF ~base.ok THEN QuestionFails(<< >>, base.error)
                    ELSE /\ metadata' = parsed.metadata
                         /\ final_json' =
                                [base.value EXCEPT !.statement =
                                    IF statement_text # ""
                                    THEN Some(process_text_for_html(
                                             statement_text,
                                             parsed.metadata["language"]))
                                    ELSE None]
                         /\ part_blocks' = split_part_blocks(content_str)
                         /\ part_counter' = 1
                         /\ pc' = "parts"
                         /\ UNCHANGED <<doc_content, question_blocks, i, stats,
                                        files, error_log, result>>
    /\ UNCHANGED <<call, ret>>

\* one round of the loop over part_blocks
BuildPart ==
    /\ pc = "parts"
    /\ part_counter <= Len(part_blocks)
    /\ IF strip(part_blocks[part_counter]) = ""
       THEN /\ part_counter' = part_counter + 1
            /\ UNCHANGED <<batch_vars, metadata, final_json, part_blocks>>
       ELSE \E built \in {process_question_part(part_blocks[part_counter],
                                                 part_counter, metadata,
                                                 metadata["language"])} :
            IF built.ok
            THEN /\ final_json' = [final_json EXCEPT !.parts = Append(@, built.value)]
                 /\ part_counter' = part_counter + 1
                 /\ UNCHANGED <<batch_vars, metadata, part_blocks>>
            ELSE QuestionFails(
                     <<"Error processing part " \o IntToStr(part_counter) \o ": "
                       \o built.error>>,
                     built.error)
    /\ UNCHANGED <<call, ret>>

\* process_single_question after the loop: count the parts, write the file
FinishQuestion ==
    /\ pc = "parts"
    /\ part_counter > Len(part_blocks)
    /\ LET done == [final_json EXCEPT
                       !.metadata.parts_count = Len(final_json.parts)]
       IN  IF done.parts = << >>
           THEN QuestionFails(<< >>, "No valid parts found in question")
           ELSE /\ files' = write_document(files, file_name_of(metadata), done)
                /\ result' = Some(file_name_of(metadata))
                /\ pc' = "record"
                /\ ClearQuestion
                /\ UNCHANGED <<doc_content, question_blocks, i, stats, error_log>>
    /\ UNCHANGED <<call, ret>>

\* the loop body of process_google_doc after process_single_question returned
RecordResult ==
    /\ pc = "record"
    /\ stats' = count_result(stats, result)
    /\ result' = None
    /\ i' = i + 1
    /\ pc' = IF i < Len(question_blocks) THEN "question" ELSE "summary"
    /\ UNCHANGED <<doc_content, question_blocks, files, error_log, question_vars,
                   call, ret>>

\* the final statistics: the success rate divides by total_questions, so
\* ZeroDivisionError leaves process_google_doc when there is no block;
\* either way the call is over and its locals are gone
EndBatch ==
    /\ pc = "summary"
    /\ pc' = IF stats.total_questions = 0 THEN "raised" ELSE "returned"
    /\ doc_content' = ""
    /\ question_blocks' = << >>
    /\ i' = 0
    /\ UNCHANGED <<stats, files, error_log, result, question_vars, call, ret>>

QuestionSteps ==
    \/ BeginQuestion
    \/ BuildPart
    \/ FinishQuestion
    \/ RecordResult
    \/ EndBatch

(***************************************************************************)
(* Spec: one processor, any number of process_google_doc calls, on         *)
(* documents of up to MaxBlocks question blocks                            *)
(***************************************************************************)
MaxBlocks == 2

BlockVocab ==
    << "id: 1\nlanguage: en\ntype: mcq\n\n[STEM]\nq ~x~\n\n[CHOICES]\n*a\nb",
       "id: 2\nlanguage: ar\n[STATEMENT]\ns\n[PART]\ntype: mcq\n[CHOICES]\n*a\n"
         \o "[PART]\ntype: matching\n[MATCHING_PAIRS]\na|b\nc|d",
       "id: 3\nlanguage: en\n[STATEMENT]\ns\n[PART]\ntype: mcq\n[CHOICES]\n*a\n"
         \o "[PART]\ntype: matching\n[MATCHING_PAIRS]\nab",
       "id: x\nlanguage: en\ntype: mcq\n[CHOICES]\n*a",
       "id: 1\nlanguage: en\ntype: string\n[ANSWER]\nw" >>

SeqsUpTo(S, n) == UNION {[1..m -> S] : m \in 0..n}

Documents ==
    {join("\n---\n", [k \in 1..Len(sq) |-> BlockVocab[sq[k]]]) :
        sq \in SeqsUpTo(1..Len(BlockVocab), MaxBlocks)}

Init == Fresh /\ call = None /\ ret = None

StartRun ==
    \E doc \in Documents : StartBatch(doc) /\ UNCHANGED <<call, ret>>

Next == StartRun \/ QuestionSteps

Spec == Init /\ [][Next]_vars

(***************************************************************************)
(* SpecQuestion: a new processor is given one question, whose body is put  *)
(* together from a statement section (absent, empty or with text) and up   *)
(* to MaxParts part bodies, with or without [PART] tags                    *)
(***************************************************************************)
MaxParts == 2

QuestionHeader == "id: 7\nlanguage: en\ntype: mcq\n"

StatementVocab == <<"", "[STATEMENT]\n", "[STATEMENT]\ns\n">>

PartTags == {"", "[PART]\n"}

PartVocab ==
    << "[CHOICES]\n*a\nb",
       "type: string\n[ANSWER]\nw",
       "",
       "type: matching\n[MATCHING_PAIRS]\nab" >>

QuestionDocuments ==
    {QuestionHeader \o StatementVocab[st]
        \o join("\n", [k \in 1..Len(sq) |-> tag \o PartVocab[sq[k]]]) :
        st \in 1..Len(StatementVocab), tag \in PartTags,
        sq \in SeqsUpTo(1..Len(PartVocab), MaxParts)}

StartQuestion ==
    /\ pc = "idle"
    /\ \E doc \in QuestionDocuments : StartBatch(doc)
    /\ UNCHANGED <<call, ret>>

NextQuestion == StartQuestion \/ QuestionSteps

SpecQuestion == Init /\ [][NextQuestion]_vars

(***************************************************************************)
(* SpecPart: process_question_part on a part block of one section with up  *)
(* to MaxLines lines                                                       *)
(***************************************************************************)
MaxLines == 3

LineVocab == <<"a", "*b", " *c", "", "p|q", "*r | s">>

PartTypes == {"mcq", "mrq", "oq", "matching"}

section_tag(type) == IF type = "matching" THEN "[MATCHING_PAIRS]" ELSE "[CHOICES]"

part_block_of(type, lines) ==
    "type: " \o type \o "\n" \o section_tag(type) \o "\n" \o join("\n", lines)

PartCalls ==
    {Some([fn |-> "process_question_part", type |-> type,
           lines |-> [k \in 1..Len(sq) |-> LineVocab[sq[k]]],
           language |-> language]) :
        type \in PartTypes, language \in Languages,
        sq \in SeqsUpTo(1..Len(LineVocab), MaxLines)}

InitPart == Fresh /\ call \in PartCalls /\ ret = None

CallProcessQuestionPart ==
    /\ ret = None
    /\ ret' = Some(process_question_part(
                       part_block_of(call[1].type, call[1].lines), 1,
                       EmptyDict, call[1].language))
    /\ UNCHANGED <<batch_vars, question_vars, call>>

NextPart == CallProcessQuestionPart

SpecPart == InitPart /\ [][NextPart]_vars

(***************************************************************************)
(* SpecRender: process_text_for_html and process_gap_text_part on texts of *)
(* up to MaxTextTokens tokens                                              *)
(***************************************************************************)
MaxTextTokens == 3

TextTokens == <<"a", "_____", "[BLANK]", " ", "<b>", "~x~", "x", "~~">>

Texts ==
    {join("", [k \in 1..Len(sq) |-> TextTokens[sq[k]]]) :
        sq \in SeqsUpTo(1..Len(TextTokens), MaxTextTokens)}

RenderCalls ==
    {Some([fn |-> fn, text |-> text, language |-> language]) :
        fn \in {"process_text_for_html", "process_gap_text_part"},
        text \in Texts, language \in Languages}

InitRender == Fresh /\ call \in RenderCalls /\ ret = None

CallProcessTextForHtml ==
    /\ ret = None
    /\ call[1].fn = "process_text_for_html"
    /\ ret' = Some(process_text_for_html(call[1].text, call[1].language))
    /\ UNCHANGED <<batch_vars, question_vars, call>>

\* the stem of the part that process_gap_text_part returns
CallProcessGapTextPart ==
    /\ ret = None
    /\ call[1].fn = "process_gap_text_part"
    /\ ret' = Some(process_gap_text_part([gaps |-> "g", stem |-> call[1].text],
                                         call[1].language).value.stem)
    /\ UNCHANGED <<batch_vars, question_vars, call>>

NextRender == CallProcessTextForHtml \/ CallProcessGapTextPart

SpecRender == InitRender /\ [][NextRender]_vars

(***************************************************************************)
(* SpecGlyph: convert_to_arabic_latex on equations of up to MaxEqTokens    *)
(* tokens                                                                  *)
(***************************************************************************)
MaxEqTokens == 3

EqTokens == <<"x", "\\frac{a}", " ", "F(x)", "2", "\\pi">>

Equations ==
    {join("", [k \in 1..Len(sq) |-> EqTokens[sq[k]]]) :
        sq \in SeqsUpTo(1..Len(EqTokens), MaxEqTokens)}

GlyphCalls ==
    {Some([fn |-> "convert_to_arabic_latex", equation |-> equation]) :
        equation \in Equations}

InitGlyph == Fresh /\ call \in GlyphCalls /\ ret = None

CallConvertToArabicLatex ==
    /\ ret = None
    /\ ret' = Some(convert_to_arabic_latex(call[1].equation))
    /\ UNCHANGED <<batch_vars, question_vars, call>>

NextGlyph == CallConvertToArabicLatex

SpecGlyph == InitGlyph /\ [][NextGlyph]_vars

(***************************************************************************)
(* SpecAi: a new processor is given one question of up to MaxParts parts   *)
(* of the types that take an ai_template_id, the id given, given empty or  *)
(* not given, at question level and at part level                          *)
(***************************************************************************)
AiHeaders ==
    << "id: 9\nlanguage: en\n",
       "id: 9\nlanguage: en\nai_template_id:\n",
       "id: 9\nlanguage: en\nai_template_id: q\n" >>

AiPartVocab ==
    << "type: frq_ai\n[ANSWER]\nw",
       "type: frq_ai\nai_template_id:\n[ANSWER]\nw",
       "type: frq_ai\nai_template_id: p\n[ANSWER]\nw",
       "type: frq\n[ANSWER]\nw",
       "type: frq\nai_template_id: p\n[ANSWER]\nw",
       "type: string\n[ANSWER]\nw",
       "type: string\nai_template_id: p\n[ANSWER]\nw" >>

AiDocuments ==
    {AiHeaders[q] \o "[STATEMENT]\ns\n"
        \o join("\n", [k \in 1..Len(sq) |-> "[PART]\n" \o AiPartVocab[sq[k]]]) :
        q \in 1..Len(AiHeaders),
        sq \in SeqsUpTo(1..Len(AiPartVocab), MaxParts) \ {<< >>}}

StartAi ==
    /\ pc = "idle"
    /\ \E doc \in AiDocuments : StartBatch(doc)
    /\ UNCHANGED <<call, ret>>

NextAi == StartAi \/ QuestionSteps

SpecAi == Init /\ [][NextAi]_vars

(***************************************************************************)
(* SpecMeta: a new processor is given one well-formed MCQ question whose   *)
(* metadata lines vary: id, language and mapped_id, each absent, empty,    *)
(* valid or invalid                                                        *)
(***************************************************************************)
MetaDocuments ==
    {id \o language \o mapped_id \o "type: mcq\n[CHOICES]\n*a\nb" :
        id \in {"", "id:\n", "id: 5\n", "id: x\n"},
        language \in {"", "language:\n", "language: en\n", "language: ar\n",
                      "language: fr\n"},
        mapped_id \in {"", "mapped_id: 7\n", "mapped_id: x\n"}}

StartMeta ==
    /\ pc = "idle"
    /\ \E doc \in MetaDocuments : StartBatch(doc)
    /\ UNCHANGED <<call, ret>>

SpecMeta == Init /\ [][StartMeta \/ QuestionSteps]_vars

(***************************************************************************)
(* SpecSplit: a new processor is given a document of up to MaxDocLines     *)
(* pieces, each a question, a separator line, an empty line or a choice    *)
(* line that ends in three dashes                                          *)
(***************************************************************************)
MaxDocLines == 3

SplitDocuments ==
    {join("\n", sq) :
        sq \in SeqsUpTo({"id: 1\nlanguage: en\ntype: mcq\n[CHOICES]\n*a\nb",
                         "id: 2\nlanguage: en\ntype: string\n[ANSWER]\nw",
                         "---", "", "c---"}, MaxDocLines)}

StartSplit ==
    /\ pc = "idle"
    /\ \E doc \in SplitDocuments : StartBatch(doc)
    /\ UNCHANGED <<call, ret>>

SpecSplit == Init /\ [][StartSplit \/ QuestionSteps]_vars

(***************************************************************************)
(* SpecRepeat: process_text_for_html is called on a new processor, then    *)
(* process_google_doc runs any number of times on documents of up to       *)
(* MaxBlocks questions, and between or after the runs process_text_for_html*)
(* is called again with the same arguments; ret lists what the calls       *)
(* returned                                                                *)
(***************************************************************************)
RepeatCalls ==
    {Some([fn |-> "process_text_for_html", text |-> text, language |-> language]) :
        text \in {"a ~x~ _____", "~~F(x)~~ <b>"}, language \in Languages}

StartRepeat ==
    /\ ret # None
    /\ \E sq \in SeqsUpTo({"id: 1\nlanguage: ar\ntype: mcq\n[CHOICES]\n*~x~\nb",
                            "id: 2\nlanguage: en\ntype: string\n[ANSWER]\n~y~"},
                           MaxBlocks) :
           StartBatch(join("\n---\n", sq))
    /\ UNCHANGED <<call, ret>>

\* a variant of CallProcessTextForHtmlAgain in which the renderer keeps the
\* language of the question processed last
CallProcessTextForHtmlRemembering ==
    /\ Len(ret) = 1
    /\ pc \in {"idle", "returned", "raised"}
    /\ ret' = Append(ret, process_text_for_html(
                              call[1].text,
                              IF "1.json" \in DOMAIN files THEN ARABIC
                              ELSE call[1].language))
    /\ UNCHANGED <<batch_vars, question_vars, call>>

\* the second call, when no run is under way
CallProcessTextForHtmlAgain ==
    /\ Len(ret) = 1
    /\ pc \in {"idle", "returned", "raised"}
    /\ ret' = Append(ret, process_text_for_html(call[1].text, call[1].language))
    /\ UNCHANGED <<batch_vars, question_vars, call>>

InitRepeat == Fresh /\ call \in RepeatCalls /\ ret = None

SpecRepeat ==
    /\ InitRepeat
    /\ [][CallProcessTextForHtml \/ StartRepeat \/ QuestionSteps
            \/ CallProcessTextForHtmlAgain]_vars

(***************************************************************************)
(* SpecType: a new processor is given one question of up to MaxParts       *)
(* parts; the type is given, not given or unsupported at question level    *)
(* and in each part, and every part has the sections of both types used    *)
(***************************************************************************)
TypeDocuments ==
    {"id: 4\nlanguage: en\n" \o type \o "[STATEMENT]\ns\n"
        \o join("\n", [k \in 1..Len(sq) |->
                           "[PART]\n" \o sq[k] \o "[CHOICES]\n*a\n[ANSWER]\nw"]) :
        type \in {"", "type: mcq\n", "type: zzz\n"},
        sq \in SeqsUpTo({"", "type:\n", "type: string\n", "type: qqq\n"},
                        MaxParts) \ {<< >>}}

StartType ==
    /\ pc = "idle"
    /\ \E doc \in TypeDocuments : StartBatch(doc)
    /\ UNCHANGED <<call, ret>>

SpecType == Init /\ [][StartType \/ QuestionSteps]_vars

(***************************************************************************)
(* What the properties below speak about                                   *)
(***************************************************************************)
\* the number of occurrences of sub in s, counted without overlap
CountOf(s, sub) == Len(split(s, sub)) - 1

\* the lines that are not blank, as they are written
NonBlankLines(lines) ==
    LET F[k \in 0..Len(lines)] ==
            IF k = 0 THEN << >>
            ELSE LET before == F[k - 1]
                 IN  IF strip(lines[k]) # "" THEN Append(before, lines[k])
                     ELSE before
    IN  F[Len(lines)]

\* content_str of process_single_question for a question block
content_str_of(block) ==
    content_of(block_lines(block),
               parse_metadata(block_lines(block)).metadata_end_index)

\* what process_single_question makes of a block taken alone: None when it
\* rejects the block, else the record it writes
QuestionOutcome(block) ==
    LET md == parse_metadata(block_lines(block)).metadata
        body == content_str_of(block)
        text == statement_text_of(body)
        blocks == split_part_blocks(body)
        base == create_base_json_structure(md, CHOOSE now \in Timestamps : TRUE)
        built == [k \in 1..Len(blocks) |->
                     process_question_part(blocks[k], k, md, md["language"])]
    IN  IF validate_metadata(md) # << >> THEN None
        ELSE IF ~base.ok THEN None
        ELSE IF blocks = << >> \/ \E k \in 1..Len(blocks) : ~built[k].ok THEN None
        ELSE Some([base.value EXCEPT
                      !.statement =
                          IF text # ""
                          THEN Some(process_text_for_html(text, md["language"]))
                          ELSE None,
                      !.parts = [k \in 1..Len(blocks) |-> built[k].value],
                      !.metadata.parts_count = Len(blocks)])

WithoutTimestamp(rec) == [rec EXCEPT !.metadata.publication_date = ""]

\* the step about to be taken meets invalid metadata or a part that raises
FailsNow ==
    \/ /\ pc = "question"
       /\ validate_metadata(
              parse_metadata(block_lines(question_blocks[i])).metadata) # << >>
    \/ /\ pc = "parts"
       /\ part_counter <= Len(part_blocks)
       /\ ~process_question_part(part_blocks[part_counter], part_counter,
                                 metadata, metadata["language"]).ok

\* the record written for the question that has just been accepted
WrittenRecord == files[result[1]]

Accepted == pc = "record" /\ result # None

\* the body of the question has both tags
Tagged == has_statement_and_parts(content_str_of(question_blocks[i]))

\* the text of the statement section: what stands before the first [PART],
\* without the tag and without surrounding whitespace
StatementTextIn(body) ==
    strip(replace(Take(body, find(body, "[PART]", 1) - 1), "[STATEMENT]", ""))

\* the non-empty [PART] blocks of a tagged body
PartBlocksIn(body) == NonEmpty(StripAll(Tail(split(body, "[PART]"))))

NumberedInOrder(parts) == \A k \in 1..Len(parts) : parts[k]["n"] = k

(***************************************************************************)
(* C1                                                                      *)
(***************************************************************************)
\* C1: every written document has metadata.parts_count equal to the length
\* of parts, and its parts carry n = 1, 2, ... in list order.
C1_PartsCountedAndNumbered ==
    \A name \in DOMAIN files :
        /\ files[name].metadata.parts_count = Len(files[name].parts)
        /\ Len(files[name].parts) >= 1
        /\ NumberedInOrder(files[name].parts)

C1_Witness ==
    \E name \in DOMAIN files :
        /\ Len(files[name].parts) = 2
        /\ files[name].parts[1]["type"] # files[name].parts[2]["type"]

(***************************************************************************)
(* C2                                                                      *)
(***************************************************************************)
\* C2: a question is all-or-nothing.  A step that meets invalid metadata or
\* a part that raises ends the question with result None and leaves the
\* documents and the stats as they are; no step of a question writes a
\* document except the one that accepts it; and recording a rejected
\* question adds one to stats.failed and changes nothing else.
C2_AllOrNothing ==
    [][ /\ FailsNow =>
               /\ pc' = "record" /\ result' = None
               /\ files' = files /\ stats' = stats
        /\ (pc \in {"question", "parts"} /\ ~(pc' = "record" /\ result' # None)) =>
               files' = files /\ stats' = stats
        /\ (pc = "record" /\ result = None) =>
               /\ files' = files
               /\ stats' = [stats EXCEPT !.failed = @ + 1] ]_vars

C2_Witness ==
    /\ pc = "record" /\ result = None
    /\ DOMAIN files # {}
    /\ \E k \in 1..Len(error_log) :
           startswith(error_log[k], "Error processing part 2: Matching pair")

(***************************************************************************)
(* C3                                                                      *)
(***************************************************************************)
\* C3: failure of a question is isolated.  When a question is recorded, it
\* is rejected or accepted, and the record written is the one (timestamp
\* apart), that its block's text alone decides; the loop reaches its end
\* with every block recorded; a run ends only with every block counted.
C3_FailureIsolated ==
    /\ pc = "record" =>
           LET expected == QuestionOutcome(question_blocks[i])
           IN  /\ (result = None) <=> (expected = None)
               /\ result # None =>
                      /\ result[1] \in DOMAIN files
                      /\ WithoutTimestamp(WrittenRecord)
                             = WithoutTimestamp(expected[1])
    /\ pc = "summary" =>
           /\ i = Len(question_blocks) + 1
           /\ stats.successful + stats.failed = Len(question_blocks)
    /\ pc \in {"returned", "raised"} =>
           stats.successful + stats.failed = stats.total_questions

C3_Witness ==
    /\ pc = "record" /\ i = 2 /\ result # None
    /\ stats.failed = 1

(***************************************************************************)
(* C4                                                                      *)
(***************************************************************************)
\* the commands occur in out, whole, one after the other
OccurInOrder(out, commands) ==
    LET F[k \in 0..Len(commands)] ==
            IF k = 0 THEN 1
            ELSE LET from == F[k - 1]
                     at == IF from = 0 THEN 0 ELSE find(out, commands[k], from)
                 IN  IF at = 0 THEN 0 ELSE at + Len(commands[k])
    IN  F[Len(commands)] # 0

\* C4 (as the specification states it; the code does not satisfy it): every
\* LaTeX command of the equation stands unchanged in the output of
\* convert_to_arabic_latex, the commands in the order of the input.
C4_CommandsUnchanged ==
    ret # None =>
        OccurInOrder(ret[1], latex_findall(call[1].equation, 1))

(***************************************************************************)
(* C5                                                                      *)
(***************************************************************************)
\* C5 (as the specification states it; the code does not satisfy it): the
\* output holds the blank marker verbatim once for each five-underscore
\* token of the text, and the output of the gap-text builder holds the gap
\* marker verbatim once for each [BLANK] of the stem.
C5_MarkersVerbatim ==
    ret # None =>
        /\ CountOf(ret[1], blank_html) = CountOf(call[1].text, "_____")
        /\ call[1].fn = "process_gap_text_part" =>
               CountOf(ret[1], stem_html_gap) = CountOf(call[1].text, "[BLANK]")

(***************************************************************************)
(* C6                                                                      *)
(***************************************************************************)
\* a matching part all of whose non-blank lines hold the separator
MatchingCall ==
    /\ ret # None
    /\ call[1].type = "matching"
    /\ \A k \in 1..Len(call[1].lines) :
           strip(call[1].lines[k]) # "" => contains(call[1].lines[k], "|")

PairLines == NonBlankLines(call[1].lines)

MatchingChoices == ret[1].value["choices"]

\* C6 (amended): for N pair lines the builder emits 2N choices; the list
\* alternates, the left item of line j and then its right item; the two
\* carry correct_order j; the index field runs over [0..N) in group 1 and
\* over [N..2N) in group 2, with fixed_order = index + 1.
C6_PairsInterleaved ==
    MatchingCall =>
        /\ ret[1].ok
        /\ Len(MatchingChoices) = 2 * Len(PairLines)
        /\ \A j \in 1..Len(PairLines) :
               LET left == MatchingChoices[2 * j - 1]
                   right == MatchingChoices[2 * j]
                   halves == split_once(PairLines[j], "|")
               IN  /\ left.group = 1 /\ right.group = 2
                   /\ left.correct_order = j /\ right.correct_order = j
                   /\ left.index = j - 1
                   /\ right.index = Len(PairLines) + j - 1
                   /\ left.fixed_order = left.index + 1
                   /\ right.fixed_order = right.index + 1
                   /\ left.html_content =
                          process_text_for_html(strip(halves[1]), call[1].language)
                   /\ right.html_content =
                          process_text_for_html(strip(halves[2]), call[1].language)

\* C6 (as the specification states it): 2N choices, list positions [0..N)
\* hold group 1 and [N..2N) group 2, partners with equal correct_order.
C6_GroupsByPosition ==
    MatchingCall =>
        /\ ret[1].ok
        /\ Len(MatchingChoices) = 2 * Len(PairLines)
        /\ \A j \in 1..Len(PairLines) :
               /\ MatchingChoices[j].group = 1
               /\ MatchingChoices[Len(PairLines) + j].group = 2
               /\ MatchingChoices[j].correct_order
                      = MatchingChoices[Len(PairLines) + j].correct_order

C6_Witness ==
    /\ MatchingCall
    /\ Len(PairLines) = 3
    /\ ret[1].ok
    /\ MatchingChoices[2].group = 2
    /\ MatchingChoices[2].index = 3

(***************************************************************************)
(* C7                                                                      *)
(***************************************************************************)
ChoicesCall == ret # None /\ call[1].type \in {"mcq", "mrq"}

ChoiceLines == NonBlankLines(call[1].lines)

EmittedChoices == ret[1].value["choices"]

\* the text of a choice line: the line without its star, trimmed
ChoiceText(line) ==
    IF startswith(strip(line), "*") THEN strip(Drop(strip(line), 1))
    ELSE strip(line)

\* what C7 says apart from the star: accepted, one choice per non-blank
\* line, in source order
OneChoicePerLine ==
    /\ ret[1].ok
    /\ Len(EmittedChoices) = Len(ChoiceLines)
    /\ \A k \in 1..Len(ChoiceLines) :
           /\ EmittedChoices[k].index = k - 1
           /\ EmittedChoices[k].html_content =
                  process_text_for_html(ChoiceText(ChoiceLines[k]),
                                        call[1].language)
           /\ EmittedChoices[k].type \in {"key", "distractor"}

\* C7 (amended): an MCQ/MRQ part is accepted with any number of starred
\* lines; it has one choice per non-blank line of the choices section, in
\* source order; a choice is a key exactly when its line, surrounding
\* whitespace removed, starts with a star.
C7_KeyIffStarAfterTrim ==
    ChoicesCall =>
        /\ OneChoicePerLine
        /\ \A k \in 1..Len(ChoiceLines) :
               EmittedChoices[k].type = "key"
                   <=> startswith(strip(ChoiceLines[k]), "*")

\* C7 (as the specification states it): a choice is a key exactly when its
\* source line started with a star.
C7_KeyIffStar ==
    ChoicesCall =>
        /\ OneChoicePerLine
        /\ \A k \in 1..Len(ChoiceLines) :
               EmittedChoices[k].type = "key" <=> startswith(ChoiceLines[k], "*")

C7_Witness ==
    /\ ChoicesCall
    /\ Len(ChoiceLines) = 3
    /\ Len(call[1].lines) = 3
    /\ EmittedChoices[1].type = "distractor"
    /\ EmittedChoices[2].type = "key" /\ startswith(ChoiceLines[2], "*")
    /\ EmittedChoices[3].type = "key" /\ ~startswith(ChoiceLines[3], "*")

(***************************************************************************)
(* C8                                                                      *)
(***************************************************************************)
\* C8: the stats describe the run under way only.  In every state
\* successful + failed <= total_questions and generated_files has
\* successful entries; during a run total_questions is the number of blocks
\* of this run and successful + failed the number of its blocks recorded so
\* far; when the run ends successful + failed = total_questions.
C8_StatsOfThisRun ==
    /\ stats.successful + stats.failed <= stats.total_questions
    /\ Len(stats.generated_files) = stats.successful
    /\ pc \in {"question", "parts", "record"} =>
           /\ stats.total_questions = Len(question_blocks)
           /\ stats.successful + stats.failed = i - 1
    /\ pc \in {"summary", "returned", "raised"} =>
           stats.successful + stats.failed = stats.total_questions

\* a second run starts on a processor whose first run wrote a document
C8_Witness ==
    /\ pc = "question" /\ i = 1
    /\ DOMAIN files # {}
    /\ stats.successful = 0 /\ stats.failed = 0
    /\ stats.total_questions = 2

(***************************************************************************)
(* C9                                                                      *)
(***************************************************************************)
\* C9 (as the specification states it; the code does not satisfy it): no
\* exception leaves process_google_doc, whatever the document.
C9_NothingPropagates == pc # "raised"

(***************************************************************************)
(* C10                                                                     *)
(***************************************************************************)
\* how the record follows the tags, the statement apart: a tagged body gives
\* one part for each non-empty [PART] block, an untagged body one part;
\* the parts are numbered from 1 in source order
PartsFollowTags ==
    LET body == content_str_of(question_blocks[i])
        md == parse_metadata(block_lines(question_blocks[i])).metadata
    IN  /\ Tagged =>
               /\ Len(WrittenRecord.parts) = Len(PartBlocksIn(body))
               /\ Len(PartBlocksIn(body)) >= 1
               /\ \A k \in 1..Len(WrittenRecord.parts) :
                      WrittenRecord.parts[k]
                          = process_question_part(
                                PartBlocksIn(body)[k], k, md, md["language"]).value
        /\ ~Tagged =>
               /\ WrittenRecord.statement = None
               /\ Len(WrittenRecord.parts) = 1
        /\ NumberedInOrder(WrittenRecord.parts)

\* C10 (amended): for an accepted question with [STATEMENT] and [PART] tags,
\* the statement is non-null exactly when the statement section holds text
\* that is not blank; the record has one part for each of the k non-empty
\* [PART] blocks, n = 1..k in source order; a body lacking either tag gives
\* one implicit part and a null statement.
C10_StatementIffText ==
    Accepted =>
        /\ PartsFollowTags
        /\ Tagged =>
               (WrittenRecord.statement # None
                    <=> StatementTextIn(content_str_of(question_blocks[i])) # "")

\* C10 (as the specification states it): with both tags the statement is
\* non-null.
C10_StatementNonNull ==
    Accepted =>
        /\ PartsFollowTags
        /\ Tagged => WrittenRecord.statement # None

\* an accepted question with an empty [STATEMENT] section and two parts
C10_Witness ==
    /\ Accepted
    /\ Tagged
    /\ contains(question_blocks[i], "[STATEMENT]\n[PART]")
    /\ WrittenRecord.statement = None
    /\ Len(WrittenRecord.parts) = 2

(***************************************************************************)
(* C11                                                                     *)
(***************************************************************************)
\* the type line of a part block, and the ids as the text gives them
HasType(part, type) == startswith(part, "type: " \o type \o "\n")

PartAiId(part) == IF contains(part, "ai_template_id: p") THEN "p" ELSE ""

QuestionAiId(block) ==
    IF contains(Take(block, find(block, "[STATEMENT]", 1)), "ai_template_id: q")
    THEN "q" ELSE ""

\* the part-level id when one is given, otherwise the question-level id
ResolvedAiId(block, part) ==
    IF PartAiId(part) # "" THEN PartAiId(part) ELSE QuestionAiId(block)

\* the frq_ai parts of the block that have no id at either level
PartsWithoutAiId(block) ==
    {k \in 1..Len(PartBlocksIn(block)) :
        /\ HasType(PartBlocksIn(block)[k], "frq_ai")
        /\ ResolvedAiId(block, PartBlocksIn(block)[k]) = ""}

\* C11: a question of frq_ai, frq and string parts is rejected exactly when
\* one of its frq_ai parts has no ai_template_id at part level and none at
\* question level, and then the error logged names ai_template_id; in an
\* accepted question every frq_ai part carries the part-level id, or the
\* question-level id when the part gives none; a string part carries the id
\* resolved the same way when there is one and no ai object otherwise, and
\* an frq part carries no ai object.
C11_AiIdRequiredForFrqAi ==
    pc = "record" =>
        LET block == question_blocks[i]
            blocks == PartBlocksIn(block)
        IN  /\ (result = None) <=> (PartsWithoutAiId(block) # {})
            /\ result = None =>
                   /\ error_log # << >>
                   /\ contains(error_log[Len(error_log)],
                               "'ai_template_id' is required for frq_ai type")
            /\ result # None =>
                   /\ Len(WrittenRecord.parts) = Len(blocks)
                   /\ \A k \in 1..Len(blocks) :
                          LET part == WrittenRecord.parts[k]
                              ai_id == ResolvedAiId(block, blocks[k])
                          IN  /\ HasType(blocks[k], "frq_ai") =>
                                     /\ "ai" \in DOMAIN part
                                     /\ part["ai"] = [ai_template_id |-> ai_id]
                              /\ HasType(blocks[k], "string") =>
                                     IF ai_id # ""
                                     THEN /\ "ai" \in DOMAIN part
                                          /\ part["ai"] = [ai_template_id |-> ai_id]
                                     ELSE "ai" \notin DOMAIN part
                              /\ HasType(blocks[k], "frq") =>
                                     "ai" \notin DOMAIN part

\* a question is rejected for its second part, an frq_ai part without id,
\* after an frq part without id was built
C11_Witness ==
    /\ pc = "record" /\ result = None
    /\ Len(PartBlocksIn(question_blocks[i])) = 2
    /\ HasType(PartBlocksIn(question_blocks[i])[1], "frq")
    /\ PartsWithoutAiId(question_blocks[i]) = {2}
    /\ \E k \in 1..Len(error_log) :
           startswith(error_log[k], "Error processing part 2: 'ai_template_id'")

(***************************************************************************)
(* C12                                                                     *)
(***************************************************************************)
\* the block has the line, among its lines
HasLine(block, line) == InSeq(line, split(block, "\n"))

\* id is present, not empty and an integer string, and language is present
\* and one of en, ar
MetadataValid(block) ==
    /\ \E l \in 1..Len(split(block, "\n")) :
           /\ startswith(split(block, "\n")[l], "id: ")
           /\ IsIntLiteral(Drop(split(block, "\n")[l], 4))
    /\ HasLine(block, "language: en") \/ HasLine(block, "language: ar")

\* C12 (as the specification states it; the code does not satisfy it): the
\* parts of a question are built only when its metadata is valid; a
\* question with invalid metadata is rejected with the validation error
\* alone and no document; and a question whose metadata is valid (its body
\* being well formed) is accepted.
C12_ValidatedIsAccepted ==
    /\ pc = "parts" => MetadataValid(question_blocks[i])
    /\ pc = "record" =>
           /\ ~MetadataValid(question_blocks[i]) =>
                  /\ result = None
                  /\ files = EmptyDict
                  /\ Len(error_log) = 1
                  /\ contains(error_log[1], "Metadata validation failed")
           /\ MetadataValid(question_blocks[i]) => result # None

(***************************************************************************)
(* C13                                                                     *)
(***************************************************************************)
\* the runs of lines between the lines that consist of three dashes, each
\* run joined again, in document order
RunsBetweenSeparators(lines) ==
    LET F[k \in 0..Len(lines)] ==
            IF k = 0 THEN <<"">>
            ELSE LET before == F[k - 1]
                     n == Len(before)
                 IN  IF lines[k] = "---" THEN Append(before, "")
                     ELSE [before EXCEPT ![n] =
                              IF k = 1 \/ lines[k - 1] = "---" THEN lines[k]
                              ELSE @ \o "\n" \o lines[k]]
    IN  F[Len(lines)]

\* the blocks of a document: its runs, trimmed, the empty ones dropped
SeparatedBlocks(doc) ==
    NonEmpty(StripAll(RunsBetweenSeparators(split(doc, "\n"))))

\* C13 (as the specification states it; the code does not satisfy it):
\* during a run the question blocks are the trimmed, non-empty runs of
\* lines between the lines that consist of three dashes, in document order.
C13_SplitAtSeparatorLines ==
    pc \in {"question", "parts", "record", "summary"} =>
        question_blocks = SeparatedBlocks(doc_content)

(***************************************************************************)
(* C14                                                                     *)
(***************************************************************************)
\* the file names of the accepted blocks among the first n, in block order
AcceptedNames(blocks, n) ==
    LET F[k \in 0..n] ==
            IF k = 0 THEN << >>
            ELSE LET before == F[k - 1]
                 IN  IF QuestionOutcome(blocks[k]) # None
                     THEN Append(before,
                                 file_name_of(parse_metadata(
                                     block_lines(blocks[k])).metadata))
                     ELSE before
    IN  F[n]

\* C14: when question i starts, and when it is about to be recorded, the
\* stats count exactly the i - 1 questions before it, generated_files names
\* the accepted ones among them in block order, and their documents are
\* written; the parts built so far are those of the first part blocks, in
\* order; when the loop has ended generated_files names the accepted
\* blocks of the document in block order.
C14_SequentialInOrder ==
    /\ pc \in {"question", "record"} =>
           /\ stats.successful + stats.failed = i - 1
           /\ stats.generated_files = AcceptedNames(question_blocks, i - 1)
           /\ \A k \in 1..Len(stats.generated_files) :
                  stats.generated_files[k] \in DOMAIN files
    /\ pc = "record" /\ result # None => result[1] \in DOMAIN files
    /\ pc = "parts" =>
           /\ Len(final_json.parts) = part_counter - 1
           /\ \A k \in 1..Len(final_json.parts) :
                  final_json.parts[k] =
                      process_question_part(part_blocks[k], k, metadata,
                                            metadata["language"]).value
    /\ pc = "summary" =>
           stats.generated_files
               = AcceptedNames(question_blocks, Len(question_blocks))

\* a run over two accepted questions whose ids stand in descending order
C14_Witness ==
    /\ pc = "summary"
    /\ stats.generated_files = <<"2.json", "1.json">>

KeysAt(s, from) ==
    {k \in 1..Len(sorted_keys) :
        /\ from + Len(sorted_keys[k]) - 1 <= Len(s)
        /\ SubSeq(s, from, from + Len(sorted_keys[k]) - 1) = sorted_keys[k]}

\* every occurrence of a key replaced by the value of the longest key that
\* matches there, the values left as they are: sorted_keys lists the longer
\* keys first
RECURSIVE ReplaceOccurrences(_, _)
ReplaceOccurrences(s, from) ==
    IF from > Len(s) THEN ""
    ELSE IF KeysAt(s, from) = {}
    THEN Char(s, from) \o ReplaceOccurrences(s, from + 1)
    ELSE LET first == CHOOSE k \in KeysAt(s, from) :
                          \A m \in KeysAt(s, from) : k <= m
         IN  MapValue(sorted_keys[first])
             \o ReplaceOccurrences(s, from + Len(sorted_keys[first]))

\* an equation of one fragment, without LaTeX commands
OneFragmentCall ==
    /\ ret # None
    /\ ~contains(call[1].equation, " ")
    /\ ~contains(call[1].equation, "\\")

\* C16 (as the specification states it; the code does not satisfy it): a
\* fragment that equals a key gives that key's value; in any other fragment
\* every occurrence of a key is replaced by the value of the longest key
\* matching there, and that value stands in the output.
C16_LongerKeyValueStays ==
    OneFragmentCall =>
        ret[1] = IF InSeq(call[1].equation, sorted_keys)
                 THEN MapValue(call[1].equation)
                 ELSE ReplaceOccurrences(call[1].equation, 1)

(***************************************************************************)
(* C17                                                                     *)
(***************************************************************************)
\* the value of the first type line among the lines of text, "" when the
\* text has no type line
TypeGiven(text) ==
    LET lines == split(text, "\n")
        at == {l \in 1..Len(lines) : startswith(lines[l], "type:")}
    IN  IF at = {} THEN ""
        ELSE strip(Drop(lines[CHOOSE l \in at : \A m \in at : l <= m], 5))

\* the type of a part block of the question block: its own when it gives
\* one, otherwise the one given before the [STATEMENT] tag
ResolvedType(block, part) ==
    IF TypeGiven(part) # "" THEN TypeGiven(part)
    ELSE TypeGiven(Take(block, find(block, "[STATEMENT]", 1) - 1))

\* the parts of the block whose type is not given or not supported
PartsWithoutType(block) ==
    {k \in 1..Len(PartBlocksIn(block)) :
        ResolvedType(block, PartBlocksIn(block)[k]) \notin QuestionType}

\* C17: a question (whose parts are otherwise well formed) is rejected
\* exactly when the type of one of its parts, resolved part level first and
\* question level second, is not given or is not one of the nine kinds;
\* the error logged for the first such part says that the type is not
\* specified or names the unsupported value; in an accepted question every
\* part has its resolved type, so a part-level type holds for its part
\* only.
C17_TypeResolvedPartFirst ==
    pc = "record" =>
        LET block == question_blocks[i]
            blocks == PartBlocksIn(block)
            bad == PartsWithoutType(block)
        IN  /\ (result = None) <=> (bad # {})
            /\ result = None =>
                   LET first == CHOOSE k \in bad : \A m \in bad : k <= m
                       type == ResolvedType(block, blocks[first])
                   IN  /\ error_log # << >>
                       /\ endswith(error_log[Len(error_log)],
                                   IF type = "" THEN "Question type not specified"
                                   ELSE "Unsupported question type: " \o type)
            /\ result # None =>
                   /\ Len(WrittenRecord.parts) = Len(blocks)
                   /\ \A k \in 1..Len(blocks) :
                          WrittenRecord.parts[k]["type"]
                              = ResolvedType(block, blocks[k])

\* an accepted question of type mcq whose first part alone is a string part
C17_Witness ==
    /\ pc = "record" /\ result # None
    /\ Len(WrittenRecord.parts) = 2
    /\ TypeGiven(PartBlocksIn(question_blocks[i])[2]) = ""
    /\ WrittenRecord.parts[1]["type"] = "string"
    /\ WrittenRecord.parts[2]["type"] = "mcq"

(***************************************************************************)
(* C18                                                                     *)
(***************************************************************************)
\* a part of one of the four choice-list types that the builder accepted
ChoiceListBuilt ==
    /\ ret # None
    /\ call[1].type \in {"mcq", "mrq", "oq", "matching"}
    /\ ret[1].ok

BuiltChoices == ret[1].value["choices"]

\* C18: every choice that the MCQ/MRQ, the ordering or the matching builder
\* emits has fixed_order = index + 1 and last_order false; within one part
\* the index values are pairwise distinct and are exactly 0 .. n - 1 for n
\* choices.
C18_IndexAndFixedOrder ==
    ChoiceListBuilt =>
        /\ \A k \in 1..Len(BuiltChoices) :
               /\ BuiltChoices[k].fixed_order = BuiltChoices[k].index + 1
               /\ BuiltChoices[k].last_order = FALSE
        /\ \A k, m \in 1..Len(BuiltChoices) :
               k # m => BuiltChoices[k].index # BuiltChoices[m].index
        /\ {BuiltChoices[k].index : k \in 1..Len(BuiltChoices)}
               = 0..(Len(BuiltChoices) - 1)

\* an ordering part of three choices
C18_Witness ==
    /\ ChoiceListBuilt
    /\ call[1].type = "oq"
    /\ Len(BuiltChoices) = 3
    /\ BuiltChoices[3].index = 2
    /\ BuiltChoices[3].fixed_order = 3

(***************************************************************************)
(* C19                                                                     *)
(***************************************************************************)
\* the documents written during the run, in the order of their writing
WrittenNames == stats.generated_files

\* C19: at the end of a batch run the output holds one document per accepted
\* question: the number of distinct documents written during the run is
\* stats.successful, generated_files names each of them exactly once, and no
\* document of the run was written over by a later question of the run.
C19_OneDocumentPerAccepted ==
    pc = "summary" =>
        /\ Cardinality({WrittenNames[k] : k \in 1..Len(WrittenNames)})
               = stats.successful
        /\ \A k, m \in 1..Len(WrittenNames) :
               k # m => WrittenNames[k] # WrittenNames[m]

(***************************************************************************)
(* C20                                                                     *)
(***************************************************************************)
\* the math spans of a text from position from on, left to right: a run
\* without backticks between two double backticks, or else between two
\* single ones
RECURSIVE MathSpans(_, _)
MathSpans(text, from) ==
    IF from > Len(text) THEN << >>
    ELSE IF Char(text, from) # Backtick THEN MathSpans(text, from + 1)
    ELSE LET close2 == IF startswith(Drop(text, from - 1), Backtick2)
                       THEN find(text, Backtick2, from + 2) ELSE 0
             close1 == find(text, Backtick, from + 1)
         IN  IF close2 # 0 /\ close2 = find(text, Backtick, from + 2)
             THEN <<[content |-> strip(SubSeq(text, from + 2, close2 - 1)),
                     double |-> TRUE]>>
                  \o MathSpans(text, close2 + 2)
             ELSE IF close1 # 0
             THEN <<[content |-> strip(SubSeq(text, from + 1, close1 - 1)),
                     double |-> FALSE]>>
                  \o MathSpans(text, close1 + 1)
             ELSE MathSpans(text, from + 1)

\* the value and the attributes after it of every math-field of an output
RECURSIVE MathFields(_, _)
MathFields(html, from) ==
    LET at == find(html, "value=\"", from)
    IN  IF at = 0 THEN << >>
        ELSE LET quote == find(html, "\"", at + 7)
                 close == find(html, "></math-field>", quote)
             IN  <<[value |-> SubSeq(html, at + 7, quote - 1),
                    attrs |-> SubSeq(html, quote + 1, close - 1)]>>
                 \o MathFields(html, close)

\* what the claim says of one span
SpanField(span, language) ==
    IF language = ARABIC /\ ~span.double
    THEN [value |-> escape_attribute(convert_to_arabic_latex(span.content)),
          attrs |-> " locale=\"ar\" lang=\"ar\""]
    ELSE [value |-> escape_attribute(span.content),
          attrs |-> " locale=\"en\""]

SpanFields(text, language) ==
    LET spans == SelectSeq(MathSpans(text, 1), LAMBDA sp : sp.content # "")
    IN  [k \in 1..Len(spans) |-> SpanField(spans[k], language)]

\* C20 (as the specification states it; the code does not satisfy it): the
\* glyph substitution is applied to a math span exactly when the language is
\* Arabic and the span is a single-backtick one; an Arabic double-backtick
\* span and every English span is rendered with its content unchanged
\* apart from HTML escaping and with locale en, an Arabic single-backtick
\* span with locale and lang ar.
C20_SubstitutionIffArabicSingle ==
    (ret # None /\ call[1].fn = "process_text_for_html") =>
        MathFields(ret[1], 1) = SpanFields(call[1].text, call[1].language)
====
